---- MODULE Spec2Model ----
(***************************************************************************)
(* A model of task6.py: ReportGenerator.generate walks a directory tree    *)
(* with FileSystemAnalyzer.analyze (os.walk, top-down, links to            *)
(* directories not followed, listing errors ignored) and hands the records *)
(* to the writer chosen by the report path's extension.                    *)
(*                                                                         *)
(* A string is a sequence of characters, a character a one-letter string;  *)
(* the double quote, the backslash, the backtick and the two characters    *)
(* outside ASCII are written by their code points ("U0022", "U005C",       *)
(* "U0060", "U0436", "U65E5").                                             *)
(***************************************************************************)
EXTENDS Naturals, Sequences, FiniteSets, TLC

VARIABLES
  fs,           \* the file system: node (sequence of names) -> entry
  input_path,   \* generate's first argument
  output_path,  \* generate's second argument
  pc,           \* where generate is
  writer,       \* the writer generate selected, "none" before
  err,          \* the exception generate raised: [kind, ext, supported]
  stack,        \* os.walk's stack of directories still to list
  dirpath,      \* the directory os.walk yielded last
  dirnames,     \* its sub-directories, in listing order
  filenames,    \* its files still to handle, in listing order
  elements,     \* analyze's list of records
  dest,         \* the report file at output_path
  analyze_calls,\* how often analyze was entered
  write_calls   \* how often a writer's write was entered

vars ==
  << fs, input_path, output_path, pc, writer, err, stack, dirpath, dirnames,
     filenames, elements, dest, analyze_calls, write_calls >>

---------------------------------------------------------------------------
(* Characters and strings *)

Ascii ==
  <<
    " ", "!", "U0022", "#", "$", "%", "&", "'", "(", ")", "*", "+", ",", "-", ".", "/",
    "0", "1", "2", "3", "4", "5", "6", "7", "8", "9", ":", ";", "<", "=", ">", "?",
    "@", "A", "B", "C", "D", "E", "F", "G", "H", "I", "J", "K", "L", "M", "N", "O",
    "P", "Q", "R", "S", "T", "U", "V", "W", "X", "Y", "Z", "[", "U005C", "]", "^", "_",
    "U0060", "a", "b", "c", "d", "e", "f", "g", "h", "i", "j", "k", "l", "m", "n", "o",
    "p", "q", "r", "s", "t", "u", "v", "w", "x", "y", "z", "{", "|", "}", "~"
  >>

\* The code point of a character.
Code(c) ==
  IF c = "U0436" THEN 1078
  ELSE IF c = "U65E5" THEN 26085
  ELSE 31 + (CHOOSE i \in 1..Len(Ascii) : Ascii[i] = c)

\* The ASCII character of a code point.
Chr(n) == Ascii[n - 31]

\* str.lower() on one character: "A".."Z" go to "a".."z"; the two
\* characters outside ASCII have no upper case form of their own.
LowerChar(c) == IF Code(c) \in 65..90 THEN Chr(Code(c) + 32) ELSE c

\* str.lower()
Lower(s) == [i \in 1..Len(s) |-> LowerChar(s[i])]

\* str.endswith(suffix)
EndsWith(s, suffix) ==
  /\ Len(s) >= Len(suffix)
  /\ SubSeq(s, Len(s) - Len(suffix) + 1, Len(s)) = suffix

\* str.rfind(c): the last position of c in s, 0 when there is none
\* (positions count from 1, so the -1 of Python is 0 here).
RFind(s, c) ==
  LET at == {i \in 1..Len(s) : s[i] = c}
  IN  IF at = {} THEN 0 ELSE CHOOSE i \in at : \A j \in at : j <= i

\* s < t for Python strings: code point by code point, a proper prefix first.
StrLess(s, t) ==
  \E k \in 1..(Len(t)) :
    /\ \A i \in 1..(k - 1) : i <= Len(s) /\ s[i] = t[i]
    /\ \/ k = Len(s) + 1
       \/ k <= Len(s) /\ Code(s[k]) < Code(t[k])

\* sorted(strings): the strings of a set in ascending order.
RECURSIVE Sorted(_)
Sorted(S) ==
  IF S = {} THEN << >>
  ELSE LET m == CHOOSE x \in S : \A y \in S \ {x} : StrLess(x, y)
       IN  <<m>> \o Sorted(S \ {m})

---------------------------------------------------------------------------
(* os.path *)

\* os.path.basename(p): what follows the last "/".
Basename(p) == SubSeq(p, RFind(p, "/") + 1, Len(p))

\* os.path.join(a, b) for a relative b.
Join(a, b) ==
  IF a = << >> \/ a[Len(a)] = "/" THEN a \o b ELSE a \o <<"/">> \o b

\* os.path.splitext(p)[1]: from the last "." of the base name on, unless
\* only dots precede it in the base name.
SplitExt(p) ==
  LET sepIndex == RFind(p, "/")
      dotIndex == RFind(p, ".")
  IN  IF /\ dotIndex > sepIndex
         /\ \E k \in (sepIndex + 1)..(dotIndex - 1) : p[k] # "."
      THEN SubSeq(p, dotIndex, Len(p))
      ELSE << >>

\* The names a path is made of: the kernel's path walk drops the
\* separators, so "/a", "/a/" and "//a" name the same node.
RECURSIVE Components(_)
Components(p) ==
  IF p = << >> THEN << >>
  ELSE LET cut == RFind(p, "/")
           last == SubSeq(p, cut + 1, Len(p))
           before == SubSeq(p, 1, IF cut = 0 THEN 0 ELSE cut - 1)
       IN  IF last = << >> THEN Components(before)
           ELSE Append(Components(before), last)

---------------------------------------------------------------------------
(* The file system *)

\* The most entries of a tree, the root directory "/" not counted.
MaxEntries == 2

\* The names entries carry: "d_1.zipx", "b.ZiP" and
\* "<U+0436>-[<U+65E5>] ,(x){+}.zip".
Names ==
  { <<"d", "_", "1", ".", "z", "i", "p", "x">>,
    <<"b", ".", "Z", "i", "P">>,
    <<"U0436", "-", "[", "U65E5", "]", " ", ",", "(", "x", ")", "{", "+", "}",
      ".", "z", "i", "p">> }

\* What an entry can be. type is what stat() finds (following links,
\* "none" for a link whose target is missing), link what lstat() finds,
\* listable whether scandir() of the directory succeeds, size st_size and
\* mtime st_mtime in tenths of a second.
Entries ==
  { [type |-> "dir",  link |-> FALSE, listable |-> TRUE,  size |-> 0, mtime |-> 11],
    [type |-> "dir",  link |-> FALSE, listable |-> FALSE, size |-> 0, mtime |-> 12],
    [type |-> "dir",  link |-> TRUE,  listable |-> TRUE,  size |-> 0, mtime |-> 13],
    [type |-> "file", link |-> FALSE, listable |-> FALSE, size |-> 0, mtime |-> 27],
    [type |-> "file", link |-> FALSE, listable |-> FALSE, size |-> 5, mtime |-> 38],
    [type |-> "file", link |-> TRUE,  listable |-> FALSE, size |-> 5, mtime |-> 49],
    [type |-> "none", link |-> TRUE,  listable |-> FALSE, size |-> 0, mtime |-> 0] }

\* The root directory "/" alone.
RootOnly == << >> :> [type |-> "dir", link |-> FALSE, listable |-> TRUE, size |-> 0, mtime |-> 10]

\* The places of a tree where one more entry fits: a free name in a
\* directory (or in what a link to a directory shows).
Slots(t) ==
  { Append(p, n) : p \in {q \in DOMAIN t : t[q].type = "dir"}, n \in Names }
    \ DOMAIN t

\* The trees of at most k entries.
RECURSIVE Trees(_)
Trees(k) ==
  IF k = 0 THEN {RootOnly}
  ELSE LET smaller == Trees(k - 1)
       IN  smaller \cup
           UNION { { t @@ (c :> e) : c \in Slots(t), e \in Entries } : t \in smaller }

---------------------------------------------------------------------------
(* The system calls the program makes *)

\* The node a path names.
Node(p) == Components(p)

\* os.path.exists(p): stat() succeeds; with a trailing "/" only on a directory.
Exists(p) ==
  /\ Node(p) \in DOMAIN fs
  /\ fs[Node(p)].type # "none"
  /\ (p # << >> /\ p[Len(p)] = "/") => fs[Node(p)].type = "dir"

\* os.path.islink(p)
IsLink(p) == Node(p) \in DOMAIN fs /\ fs[Node(p)].link

\* Whether os.stat(p) succeeds (it follows links).
StatOk(p) == Node(p) \in DOMAIN fs /\ fs[Node(p)].type # "none"

\* Whether os.scandir(p) succeeds: p is a directory that may be listed.
ScandirOk(p) ==
  /\ Node(p) \in DOMAIN fs
  /\ fs[Node(p)].type = "dir"
  /\ fs[Node(p)].listable

\* The names os.scandir(p) yields.
Listing(p) == {n \in Names : Append(Node(p), n) \in DOMAIN fs}

\* DirEntry.is_dir() of the entry n of p (it follows links).
EntryIsDir(p, n) == fs[Append(Node(p), n)].type = "dir"

\* The orders a set of names can be listed in.
Orders(S) ==
  {o \in [1..Cardinality(S) -> S] : \A i, j \in DOMAIN o : i # j => o[i] # o[j]}

\* list(reversed(o))
Reversed(o) == [i \in 1..Len(o) |-> o[Len(o) + 1 - i]]

---------------------------------------------------------------------------
(* FileSystemAnalyzer *)

\* The fourth field of a record holds a string or an integer.
StrField(v) == [isint |-> FALSE, int |-> 0, str |-> v]
IntField(n) == [isint |-> TRUE, int |-> n, str |-> ""]

\* datetime.fromtimestamp(st_mtime).strftime("%Y-%m-%d %H:%M:%S"): the
\* whole seconds of st_mtime (kept as their count).
FormatTime(t) == t \div 10

\* get_file_info(file_path): (name, size, mtime)
get_file_info(file_path) ==
  [name |-> Basename(file_path),
   kind |-> IntField(fs[Node(file_path)].size),
   mtime |-> FormatTime(fs[Node(file_path)].mtime)]

\* get_folder_info(folder_path): (name, "FOLDER", mtime)
get_folder_info(folder_path) ==
  [name |-> Basename(folder_path),
   kind |-> StrField("FOLDER"),
   mtime |-> FormatTime(fs[Node(folder_path)].mtime)]

\* One tuple of analyze's list.
Element(type, path, info) ==
  [type |-> type, path |-> path, name |-> info.name,
   size_or_type |-> info.kind, mtime |-> info.mtime]

\* IsZip without the lower(): ".zip" in lower case only.
IsZipCaseSensitive(filename) == EndsWith(filename, <<".", "z", "i", "p">>)

\* filename.lower().endswith(".zip")
IsZip(filename) == EndsWith(Lower(filename), <<".", "z", "i", "p">>)

\* HandleFile without the islink test.
HandleFileNoLinkTest(els, dir, filename) ==
  LET file_path == Join(dir, filename)
  IN  IF ~StatOk(file_path) THEN [elements |-> els, raised |-> TRUE]
      ELSE IF IsZip(filename)
           THEN [elements |-> Append(els, Element("zip_folder", file_path,
                                                  get_folder_info(file_path))),
                 raised |-> FALSE]
           ELSE [elements |-> Append(els, Element("file", file_path,
                                                  get_file_info(file_path))),
                 raised |-> FALSE]

\* The body of analyze's loop over filenames for one file: the list with
\* the file's record appended (none for a symbolic link), and whether
\* os.stat raised.
HandleFile(els, dir, filename) ==
  LET file_path == Join(dir, filename)
  IN  IF IsLink(file_path) THEN [elements |-> els, raised |-> FALSE]
      ELSE IF ~StatOk(file_path) THEN [elements |-> els, raised |-> TRUE]
      ELSE IF IsZip(filename)
           THEN [elements |-> Append(els, Element("zip_folder", file_path,
                                                  get_folder_info(file_path))),
                 raised |-> FALSE]
           ELSE [elements |-> Append(els, Element("file", file_path,
                                                  get_file_info(file_path))),
                 raised |-> FALSE]

\* HandleFolder with the record put at the front of the list.
HandleFolderAtFront(els, dir) ==
  <<Element("folder", dir, get_folder_info(dir))>> \o els

\* The first two statements of analyze's loop body: the record of the
\* directory os.walk yielded goes to the end of the list.
HandleFolder(els, dir) ==
  Append(els, Element("folder", dir, get_folder_info(dir)))

\* WalkInto with followlinks True: every sub-directory is pushed.
WalkIntoFollowingLinks(top, dirs) ==
  [i \in 1..Len(dirs) |-> Join(top, Reversed(dirs)[i])]

\* What os.walk pushes after the loop body ran: the sub-directories that
\* are no symbolic links (followlinks is False), last listed first, so that
\* the first listed is popped next.
WalkInto(top, dirs) ==
  LET new_paths == [i \in 1..Len(dirs) |-> Join(top, Reversed(dirs)[i])]
  IN  SelectSeq(new_paths, LAMBDA new_path : ~IsLink(new_path))

---------------------------------------------------------------------------
(* The writers. The Cyrillic literals of the code are transliterated:      *)
(* "Papka" (folder), "Fajl" (file), "Tip" (type), "Imya" (name), "Razmer"  *)
(* (size), "Data izmeneniya" (modified), "bajt" (bytes).                   *)

IsFolderLike(e) == e.type \in {"folder", "zip_folder"}

\* InClass with the brackets lost from the class.
InClassNoBrackets(c) ==
  \/ Code(c) \in Code("A")..Code("Z")
  \/ Code(c) \in Code("a")..Code("z")
  \/ Code(c) \in Code("0")..Code("9")
  \/ c \in {".", "_", "-", " ", "(", ")", "{", "}"}

\* The character class of PDFWriter's pattern, [^A-Za-z0-9._\- ()[\]{}],
\* without its negation.
InClass(c) ==
  \/ Code(c) \in Code("A")..Code("Z")
  \/ Code(c) \in Code("a")..Code("z")
  \/ Code(c) \in Code("0")..Code("9")
  \/ c \in {".", "_", "-", " ", "(", ")", "[", "]", "{", "}"}

\* re.sub(pattern, "_", name)
safe_name(name) == [i \in 1..Len(name) |-> IF InClass(name[i]) THEN name[i] ELSE "_"]

TableHead == <<"Tip", "Imya", "Razmer/Tip", "Data izmeneniya">>

TableRow(e) ==
  [label |-> IF IsFolderLike(e) THEN "Papka" ELSE "Fajl",
   name |-> e.name, value |-> e.size_or_type, mtime |-> e.mtime]

TextLine(e) ==
  IF IsFolderLike(e)
  THEN [label |-> "Papka: ", name |-> e.name, field |-> " | Tip: ",
        value |-> e.size_or_type, unit |-> "", mtime |-> e.mtime]
  ELSE [label |-> "Fajl: ", name |-> e.name, field |-> " | Razmer: ",
        value |-> e.size_or_type, unit |-> " bajt", mtime |-> e.mtime]

CSVWrite(els) ==
  [format |-> "csv", title |-> "", head |-> TableHead,
   rows |-> [i \in 1..Len(els) |-> TableRow(els[i])]]

JSONWrite(els) ==
  [format |-> "json", title |-> "", head |-> << >>,
   rows |-> [i \in 1..Len(els) |->
               [type |-> IF IsFolderLike(els[i]) THEN "folder" ELSE "file",
                name |-> els[i].name,
                size_or_type |-> els[i].size_or_type,
                modification_time |-> els[i].mtime]]]

TextWrite(els) ==
  [format |-> "text", title |-> "", head |-> << >>,
   rows |-> [i \in 1..Len(els) |-> TextLine(els[i])]]

DOCXWrite(els) ==
  [format |-> "docx", title |-> "Otchyot o strukture fajlov i papok",
   head |-> << >>, rows |-> [i \in 1..Len(els) |-> TextLine(els[i])]]

XLSXWrite(els) ==
  [format |-> "xlsx", title |-> "Otchyot o strukture fajlov i papok",
   head |-> TableHead, rows |-> [i \in 1..Len(els) |-> TableRow(els[i])]]

PDFLine(e) ==
  IF IsFolderLike(e)
  THEN [label |-> "[DIR]  ", name |-> safe_name(e.name), field |-> "",
        value |-> StrField(""), unit |-> "", mtime |-> e.mtime]
  ELSE [label |-> "[FILE] ", name |-> safe_name(e.name), field |-> " | Size: ",
        value |-> e.size_or_type, unit |-> " bytes", mtime |-> e.mtime]

PDFWrite(els) ==
  [format |-> "pdf", title |-> "File Structure Report", head |-> << >>,
   rows |-> [i \in 1..Len(els) |-> PDFLine(els[i])]]

\* writer.write(elements, report_path): the document the writer leaves at
\* report_path.
WriterOutput(w, els) ==
  CASE w = "CSVWriter" -> CSVWrite(els)
    [] w = "JSONWriter" -> JSONWrite(els)
    [] w = "TextWriter" -> TextWrite(els)
    [] w = "DOCXWriter" -> DOCXWrite(els)
    [] w = "XLSXWriter" -> XLSXWrite(els)
    [] w = "PDFWriter" -> PDFWrite(els)

---------------------------------------------------------------------------
(* ReportGenerator *)

\* self.writers
writers ==
  (<<".", "c", "s", "v">> :> "CSVWriter")
  @@ (<<".", "j", "s", "o", "n">> :> "JSONWriter")
  @@ (<<".", "t", "x", "t">> :> "TextWriter")
  @@ (<<".", "l", "o", "g">> :> "TextWriter")
  @@ (<<".", "d", "o", "c", "x">> :> "DOCXWriter")
  @@ (<<".", "x", "l", "s", "x">> :> "XLSXWriter")
  @@ (<<".", "p", "d", "f">> :> "PDFWriter")

NoError == [kind |-> "none", arg |-> << >>, supported |-> << >>]

\* LookupExt without the lower().
LookupExtAsWritten(path) == SplitExt(path)

\* The extension generate looks up.
LookupExt(path) == Lower(SplitExt(path))

\* Validate with the extension looked up before the input path is tested.
ValidateExtensionFirst(input, output) ==
  LET ext == LookupExt(output)
  IN  IF ext \notin DOMAIN writers
      THEN [writer |-> "none",
            err |-> [kind |-> "ValueError", arg |-> ext,
                     supported |-> Sorted(DOMAIN writers)]]
      ELSE IF ~Exists(input)
      THEN [writer |-> "none",
            err |-> [kind |-> "FileNotFoundError", arg |-> input, supported |-> << >>]]
      ELSE [writer |-> writers[ext], err |-> NoError]

\* generate up to the call of analyze: the two checks, in their order.
Validate(input, output) ==
  LET ext == LookupExt(output)
  IN  IF ~Exists(input)
      THEN [writer |-> "none",
            err |-> [kind |-> "FileNotFoundError", arg |-> input, supported |-> << >>]]
      ELSE IF ext \notin DOMAIN writers
      THEN [writer |-> "none",
            err |-> [kind |-> "ValueError", arg |-> ext,
                     supported |-> Sorted(DOMAIN writers)]]
      ELSE [writer |-> writers[ext], err |-> NoError]

---------------------------------------------------------------------------
(* The calls of generate that are checked *)

\* --path: "/", "/d_1.zipx" and "/d_1.zipx/".
InputPaths ==
  { <<"/">>,
    <<"/", "d", "_", "1", ".", "z", "i", "p", "x">>,
    <<"/", "d", "_", "1", ".", "z", "i", "p", "x", "/">> }

\* --report: "r.csv", "r.CsV", "r.json", "r.txt", "r.LOG", "r.docx", "r.xlsx", "r.Pdf", "r.xyz", "r", ".csv", "o.pdf/r", "r.pdf.bak".
OutputPaths ==
  { <<"r", ".", "c", "s", "v">>,
    <<"r", ".", "C", "s", "V">>,
    <<"r", ".", "j", "s", "o", "n">>,
    <<"r", ".", "t", "x", "t">>,
    <<"r", ".", "L", "O", "G">>,
    <<"r", ".", "d", "o", "c", "x">>,
    <<"r", ".", "x", "l", "s", "x">>,
    <<"r", ".", "P", "d", "f">>,
    <<"r", ".", "x", "y", "z">>,
    <<"r">>,
    <<".", "c", "s", "v">>,
    <<"o", ".", "p", "d", "f", "/", "r">>,
    <<"r", ".", "p", "d", "f", ".", "b", "a", "k">> }

Absent == [format |-> "absent", title |-> "", head |-> << >>, rows |-> << >>]

\* Every tree is reported as PDF and as CSV; every report path is tried on
\* the trees of at most one entry.
TreeReports ==
  { <<"r", ".", "P", "d", "f">>, <<"r", ".", "c", "s", "v">> }

Init ==
  /\ \/ fs \in Trees(MaxEntries) /\ output_path \in TreeReports
     \/ fs \in Trees(1) /\ output_path \in OutputPaths
  /\ input_path \in InputPaths
  /\ pc = "start"
  /\ writer = "none"
  /\ err = NoError
  /\ stack = << >>
  /\ dirpath = << >>
  /\ dirnames = << >>
  /\ filenames = << >>
  /\ elements = << >>
  /\ dest = Absent
  /\ analyze_calls = 0
  /\ write_calls = 0

\* generate, up to the call of analyze: it raises or has its writer.
Check ==
  /\ pc = "start"
  /\ LET v == Validate(input_path, output_path)
     IN  /\ writer' = v.writer
         /\ err' = v.err
         /\ pc' = IF v.err.kind = "none" THEN "analyze" ELSE "raised"
  /\ UNCHANGED << fs, input_path, output_path, stack, dirpath, dirnames,
                  filenames, elements, dest, analyze_calls, write_calls >>

\* analyze is entered: an empty list, and os.walk starts at root_path.
Analyze ==
  /\ pc = "analyze"
  /\ analyze_calls' = analyze_calls + 1
  /\ elements' = << >>
  /\ stack' = <<input_path>>
  /\ pc' = "walk"
  /\ UNCHANGED << fs, input_path, output_path, writer, err, dirpath, dirnames,
                  filenames, dest, write_calls >>

\* os.walk takes the next directory: one that cannot be listed is passed
\* over (onerror is None); otherwise it is yielded with its listing, in
\* whatever order the listing comes, and the loop body records the folder.
WalkDir ==
  /\ pc = "walk"
  /\ stack # << >>
  /\ LET top == stack[Len(stack)]
     IN  /\ stack' = SubSeq(stack, 1, Len(stack) - 1)
         /\ IF ~ScandirOk(top)
            THEN UNCHANGED << pc, dirpath, dirnames, filenames, elements >>
            ELSE /\ \E o \in Orders(Listing(top)) :
                      /\ dirnames' = SelectSeq(o, LAMBDA n : EntryIsDir(top, n))
                      /\ filenames' = SelectSeq(o, LAMBDA n : ~EntryIsDir(top, n))
                 /\ dirpath' = top
                 /\ elements' = HandleFolder(elements, top)
                 /\ pc' = "files"
  /\ UNCHANGED << fs, input_path, output_path, writer, err, dest,
                  analyze_calls, write_calls >>

\* One round of the loop over filenames.
ProcessFile ==
  /\ pc = "files"
  /\ filenames # << >>
  /\ LET r == HandleFile(elements, dirpath, Head(filenames))
     IN  /\ elements' = r.elements
         /\ pc' = IF r.raised THEN "raised" ELSE "files"
         /\ err' = IF r.raised
                   THEN [kind |-> "OSError", arg |-> Join(dirpath, Head(filenames)),
                         supported |-> << >>]
                   ELSE err
  /\ filenames' = Tail(filenames)
  /\ UNCHANGED << fs, input_path, output_path, writer, stack, dirpath,
                  dirnames, dest, analyze_calls, write_calls >>

\* The loop over filenames is over: os.walk resumes and pushes the
\* sub-directories it will descend into.
ResumeWalk ==
  /\ pc = "files"
  /\ filenames = << >>
  /\ stack' = stack \o WalkInto(dirpath, dirnames)
  /\ pc' = "walk"
  /\ UNCHANGED << fs, input_path, output_path, writer, err, dirpath, dirnames,
                  filenames, elements, dest, analyze_calls, write_calls >>

\* os.walk is exhausted: analyze returns its list.
Return ==
  /\ pc = "walk"
  /\ stack = << >>
  /\ pc' = "write"
  /\ UNCHANGED << fs, input_path, output_path, writer, err, stack, dirpath,
                  dirnames, filenames, elements, dest, analyze_calls, write_calls >>

\* writer.write(elements, output_path), then the acknowledgment.
Write ==
  /\ pc = "write"
  /\ write_calls' = write_calls + 1
  /\ dest' = WriterOutput(writer, elements)
  /\ pc' = "done"
  /\ UNCHANGED << fs, input_path, output_path, writer, err, stack, dirpath,
                  dirnames, filenames, elements, analyze_calls >>

Next ==
  \/ Check
  \/ Analyze
  \/ WalkDir
  \/ ProcessFile
  \/ ResumeWalk
  \/ Return
  \/ Write

Spec == Init /\ [][Next]_vars

---------------------------------------------------------------------------
(* What the claims speak of *)

\* analyze has returned its list.
Returned == pc \in {"write", "done"}

\* The node generate was pointed at, and the node a record is about.
RootNode == Components(input_path)
RecNode(e) == Components(e.path)

Parent(n) == SubSeq(n, 1, Len(n) - 1)
Prefix(n, k) == SubSeq(n, 1, k)
IsUnderRoot(n) == Len(n) >= Len(RootNode) /\ Prefix(n, Len(RootNode)) = RootNode

\* The directories the traversal reaches and lists: the root, and below it
\* every directory that can be listed and that is reached through
\* directories only, none of them a symbolic link.
ReachedDirs ==
  { n \in DOMAIN fs :
      /\ IsUnderRoot(n)
      /\ \A k \in Len(RootNode)..Len(n) :
           /\ fs[Prefix(n, k)].type = "dir"
           /\ fs[Prefix(n, k)].listable
           /\ k > Len(RootNode) => ~fs[Prefix(n, k)].link }

\* The indices of the records about node n.
RecordsOf(n) == {i \in 1..Len(elements) : RecNode(elements[i]) = n}

\* C1: each directory the traversal reaches has exactly one folder record
\* in the returned list, and the record of every entry directly in a
\* directory comes after that directory's folder record.
C1_PreOrder ==
  /\ Returned =>
       \A n \in ReachedDirs :
         Cardinality({i \in RecordsOf(n) : elements[i].type = "folder"}) = 1
  /\ \A j \in 1..Len(elements) :
       RecNode(elements[j]) # RootNode =>
         \E i \in 1..(j - 1) :
           /\ elements[i].type = "folder"
           /\ RecNode(elements[i]) = Parent(RecNode(elements[j]))

\* A returned list in which one directory's record is followed by the
\* records of a file and of a sub-directory directly in it.
C1_Witness ==
  /\ Returned
  /\ \E i, j, k \in 1..Len(elements) :
       /\ elements[i].type = "folder"
       /\ elements[j].type = "file"
       /\ elements[k].type = "folder"
       /\ Parent(RecNode(elements[j])) = RecNode(elements[i])
       /\ Parent(RecNode(elements[k])) = RecNode(elements[i])
       /\ RecNode(elements[j]) # RecNode(elements[i])
       /\ RecNode(elements[k]) # RecNode(elements[i])

\* C2: with an input path that does not exist generate raises
\* FileNotFoundError whatever the output path is, and then analyze has not
\* been called, no writer has been called and the report file is untouched.
C2_NotFound ==
  (pc # "start" /\ ~Exists(input_path)) =>
    /\ pc = "raised"
    /\ err.kind = "FileNotFoundError"
    /\ analyze_calls = 0
    /\ write_calls = 0
    /\ dest = Absent

\* The extension of a report path, lower-cased.
LoweredExtension(path) == Lower(SplitExt(path))

\* generate raised for a missing input path although the output path's
\* extension is not supported either.
C2_Witness ==
  /\ pc = "raised"
  /\ ~Exists(input_path)
  /\ LoweredExtension(output_path) = <<".", "x", "y", "z">>

\* The seven extensions, sorted, and the writer of each.
SupportedSorted ==
  << <<".", "c", "s", "v">>, <<".", "d", "o", "c", "x">>, <<".", "j", "s", "o", "n">>,
     <<".", "l", "o", "g">>, <<".", "p", "d", "f">>, <<".", "t", "x", "t">>,
     <<".", "x", "l", "s", "x">> >>
WriterOfSorted ==
  << "CSVWriter", "DOCXWriter", "JSONWriter", "TextWriter", "PDFWriter",
     "TextWriter", "XLSXWriter" >>

\* C3: for an existing input path generate raises ValueError exactly when
\* the lower-cased extension of the output path is none of the seven; it
\* does so before analyze or a writer runs, and the message lists the seven
\* sorted; otherwise the writer of the lower-cased extension is selected.
C3_Unsupported ==
  (pc # "start" /\ Exists(input_path)) =>
    LET ext == LoweredExtension(output_path)
        known == {i \in 1..Len(SupportedSorted) : SupportedSorted[i] = ext}
    IN  /\ (err.kind = "ValueError") <=> (known = {})
        /\ known = {} =>
             /\ pc = "raised"
             /\ analyze_calls = 0
             /\ write_calls = 0
             /\ dest = Absent
             /\ err.supported = SupportedSorted
        /\ \A i \in known : writer = WriterOfSorted[i]

\* generate raised ValueError for an existing input path.
C3_Witness ==
  /\ pc = "raised"
  /\ Exists(input_path)
  /\ err.kind = "ValueError"
  /\ err.supported = SupportedSorted

\* A file entry that is a symbolic link (to a file, or to nothing).
IsFileLink(n) == fs[n].link /\ fs[n].type # "dir"

\* C4: no record is about a file entry that is a symbolic link, the report
\* has one row per record and no more, and nothing is raised while such an
\* entry is passed over.
C4_NoFileLinks ==
  /\ \A i \in 1..Len(elements) : ~IsFileLink(RecNode(elements[i]))
  /\ err.kind # "OSError"
  /\ pc = "done" => Len(dest.rows) = Len(elements)

\* analyze returned from a tree where a listed directory holds a symbolic
\* link to a file, named like a zip archive, and one to nothing.
C4_Witness ==
  /\ Returned
  /\ \E n, m \in DOMAIN fs :
       /\ n # RootNode /\ m # RootNode
       /\ Parent(n) \in ReachedDirs /\ Parent(m) \in ReachedDirs
       /\ IsFileLink(n) /\ fs[n].type = "file"
       /\ EndsWith(n[Len(n)], <<".", "z", "i", "p">>)
       /\ IsFileLink(m) /\ fs[m].type = "none"

\* The entries that lie in the tree under the root: the root and what is
\* reached from it through directories that are no symbolic links.
InTree(n) ==
  /\ IsUnderRoot(n)
  /\ \A k \in Len(RootNode)..(Len(n) - 1) :
       /\ fs[Prefix(n, k)].type = "dir"
       /\ k > Len(RootNode) => ~fs[Prefix(n, k)].link

\* C5: for a root that is a directory, the returned list has as many records
\* as the tree has entries that are no symbolic links: one per directory,
\* the root included, and one per file.
C5_Count ==
  (Returned /\ fs[RootNode].type = "dir") =>
    Len(elements) =
      Cardinality({n \in DOMAIN fs : InTree(n) /\ (n = RootNode \/ ~fs[n].link)})

\* C5 on the trees whose directories can all be listed: there the count
\* holds.
C5_CountWhenListable ==
  (\A n \in DOMAIN fs :
     (InTree(n) /\ fs[n].type = "dir" /\ (n = RootNode \/ ~fs[n].link)) =>
       fs[n].listable)
  => C5_Count

\* C6: no record has an empty name, and the root's record carries the last
\* name of the root path.
C6_NameNonEmpty ==
  \A i \in 1..Len(elements) :
    /\ elements[i].name # << >>
    /\ (RecNode(elements[i]) = RootNode /\ RootNode # << >>) =>
         elements[i].name = RootNode[Len(RootNode)]

\* C7: for a root path that exists the returned list is not empty and
\* starts with the root's folder record; for an empty directory that
\* record is all of it.
C7_RootRecord ==
  (Returned /\ Exists(input_path)) =>
    /\ elements # << >>
    /\ elements[1].type = "folder"
    /\ RecNode(elements[1]) = RootNode
    /\ Listing(input_path) = {} => Len(elements) = 1

\* C7 for a root that is a directory and can be listed: there it holds.
C7_RootRecordWhenListable == ScandirOk(input_path) => C7_RootRecord

\* A symbolic link to a directory that lies in a directory the traversal
\* lists.
IsMetDirLink(n) ==
  /\ n # RootNode
  /\ IsUnderRoot(n)
  /\ Parent(n) \in ReachedDirs
  /\ fs[n].link
  /\ fs[n].type = "dir"

\* C8, as claimed: a symbolic link to a directory gets a folder record, and
\* so does every entry seen through it that is no symbolic link.
C8_LinkFollowed ==
  Returned =>
    \A n \in DOMAIN fs :
      IsMetDirLink(n) =>
        /\ \E i \in RecordsOf(n) : elements[i].type = "folder"
        /\ \A m \in DOMAIN fs :
             (Len(m) = Len(n) + 1 /\ Parent(m) = n /\ ~fs[m].link) => RecordsOf(m) # {}

\* C8, amended: a symbolic link to a directory met during the traversal is
\* not followed: no record is about the link, and none about an entry
\* reached through it.
C8_LinkNotFollowed ==
  \A i \in 1..Len(elements) :
    LET n == RecNode(elements[i])
    IN  \A k \in (Len(RootNode) + 1)..Len(n) :
          ~(fs[Prefix(n, k)].link /\ fs[Prefix(n, k)].type = "dir")

\* analyze returned from a tree where a listed directory holds a symbolic
\* link to a directory that has an entry.
C8_Witness ==
  /\ Returned
  /\ \E n, m \in DOMAIN fs :
       /\ IsMetDirLink(n)
       /\ Len(m) = Len(n) + 1 /\ Parent(m) = n

\* A name that ends in ".zip", in any mixture of upper and lower case.
EndsInZip(name) ==
  /\ Len(name) >= 4
  /\ name[Len(name) - 3] = "."
  /\ name[Len(name) - 2] \in {"z", "Z"}
  /\ name[Len(name) - 1] \in {"i", "I"}
  /\ name[Len(name)] \in {"p", "P"}

\* C9: every file that is no symbolic link and lies in a listed directory
\* has one record: a zip_folder carrying "FOLDER" if its name ends in ".zip"
\* in any letter case, a file carrying its size otherwise; and every folder
\* record carries "FOLDER".
C9_ZipClassified ==
  /\ Returned =>
       \A n \in DOMAIN fs :
         (/\ n # RootNode /\ IsUnderRoot(n) /\ Parent(n) \in ReachedDirs
          /\ fs[n].type = "file" /\ ~fs[n].link) =>
           /\ Cardinality(RecordsOf(n)) = 1
           /\ \A i \in RecordsOf(n) :
                IF EndsInZip(n[Len(n)])
                THEN /\ elements[i].type = "zip_folder"
                     /\ elements[i].size_or_type = StrField("FOLDER")
                ELSE /\ elements[i].type = "file"
                     /\ elements[i].size_or_type = IntField(fs[n].size)
  /\ \A i \in 1..Len(elements) :
       /\ elements[i].type \in {"folder", "zip_folder", "file"}
       /\ elements[i].type = "folder" => elements[i].size_or_type = StrField("FOLDER")
       /\ elements[i].type = "zip_folder" =>
            /\ fs[RecNode(elements[i])].type = "file"
            /\ EndsInZip(elements[i].name)
       /\ elements[i].type = "file" => ~EndsInZip(elements[i].name)

\* The returned list holds a zip_folder record of a file whose ".zip" is
\* not all lower case, beside a file record with the size 5.
C9_Witness ==
  /\ Returned
  /\ \E i, j \in 1..Len(elements) :
       /\ elements[i].type = "zip_folder"
       /\ elements[i].name # Lower(elements[i].name)
       /\ elements[i].size_or_type = StrField("FOLDER")
       /\ elements[j].type = "file"
       /\ elements[j].size_or_type = IntField(5)

\* The characters a rendered name may hold: A-Z, a-z, 0-9 and ._- ()[]{}.
AllowedChars ==
  {
    "A", "B", "C", "D", "E", "F", "G", "H", "I", "J", "K", "L", "M", "N", "O", "P",
    "Q", "R", "S", "T", "U", "V", "W", "X", "Y", "Z", "a", "b", "c", "d", "e", "f",
    "g", "h", "i", "j", "k", "l", "m", "n", "o", "p", "q", "r", "s", "t", "u", "v",
    "w", "x", "y", "z", "0", "1", "2", "3", "4", "5", "6", "7", "8", "9", ".", "_",
    "-", " ", "(", ")", "[", "]", "{", "}"
  }

\* out is name with every character outside AllowedChars replaced by "_".
IsSanitized(name, out) ==
  /\ Len(out) = Len(name)
  /\ \A k \in 1..Len(name) :
       /\ out[k] \in AllowedChars
       /\ name[k] \in AllowedChars => out[k] = name[k]
       /\ name[k] \notin AllowedChars => out[k] = "_"

\* What the report's rows hold, against the records they were made from.
RowsRendered ==
  pc = "done" =>
    /\ Len(dest.rows) = Len(elements)
    /\ \A i \in 1..Len(elements) :
         IF writer = "PDFWriter"
         THEN IsSanitized(elements[i].name, dest.rows[i].name)
         ELSE dest.rows[i].name = elements[i].name

\* C10: the PDF writer renders each name with the characters outside
\* AllowedChars replaced by "_" and the others kept, every other writer
\* renders the name as it is, and writing leaves the records as they were.
C10_Sanitized ==
  /\ []RowsRendered
  /\ [][pc = "write" => elements' = elements]_vars

\* A PDF report in which a name was changed and kept a bracket.
C10_Witness ==
  /\ pc = "done"
  /\ writer = "PDFWriter"
  /\ \E i \in 1..Len(elements) :
       /\ dest.rows[i].name # elements[i].name
       /\ \E k \in 1..Len(elements[i].name) :
            /\ elements[i].name[k] = "["
            /\ dest.rows[i].name[k] = "["
       /\ \E k \in 1..Len(elements[i].name) :
            /\ Code(elements[i].name[k]) > 127
            /\ dest.rows[i].name[k] = "_"

====
